---- MODULE Spec2Model ----
(***************************************************************************)
(* Model of the Govee Light Automation quota tracker (rate_limiter.py),    *)
(* its adaptive polling interval, and the API client that gates and        *)
(* accounts outbound calls (govee_api.py).                                 *)
(***************************************************************************)
EXTENDS Integers, Sequences, FiniteSets, TLC

(***************************************************************************)
(* Program constants (const.py).                                           *)
(***************************************************************************)
DAILY_REQUEST_LIMIT == 10000
SAFE_REQUEST_LIMIT == 9000
REQUESTS_PER_DEVICE_PER_DAY == 1440
MIN_POLLING_INTERVAL == 60
MAX_POLLING_INTERVAL == 300
DEFAULT_POLLING_INTERVAL == 120
SECONDS_PER_DAY == 86400
DOUBLE_MANTISSA_BITS == 52

(***************************************************************************)
(* Bounds of the model.                                                    *)
(***************************************************************************)
MaxDay == 2
MaxDevices == 5
MaxEnumerated == 2
MaxCalls == 2
MaxOver == 2
MaxRecorded == 2
MaxSteps == 1
MaxSent == 2

Slots == 1..MaxCalls
(* device counts the interval is computed for: a range, and the 10 devices *)
(* of the documented scenario                                             *)
DeviceCounts == (0..MaxDevices) \cup {10}
EnumeratedCounts == 0..MaxEnumerated

(* Request counts a storage record written on an earlier run may hold when *)
(* the API client is constructed.                                          *)
LoadedCounts == {0, 500, SAFE_REQUEST_LIMIT - 2, SAFE_REQUEST_LIMIT - 1, SAFE_REQUEST_LIMIT}

(* Device counts such a record may hold.                                   *)
LoadedDevices == {0, MaxEnumerated}

(***************************************************************************)
(* datetime.now().strftime("%Y-%m-%d"): the day number rendered as the     *)
(* date string; distinct days give distinct strings.                       *)
(***************************************************************************)
strftime(day) == <<"Y-m-d", day>>

(***************************************************************************)
(* Python float arithmetic of get_adaptive_polling_interval.               *)
(*                                                                         *)
(* remaining_requests / self.device_count is an IEEE-754 double: the       *)
(* quotient n/d rounded to 53 significant bits (round to nearest, ties to  *)
(* even).  With g = floor(log2(n/d)) and s = 52 - g the double is          *)
(*     (n * 2^s + c) / (d * 2^s)                                           *)
(* where rho = (n * 2^s) mod d is the remainder of the long division and   *)
(* c = d - rho when the mantissa is rounded up, c = -rho when it is        *)
(* rounded down.  Only rho is needed, and it is computed by doubling       *)
(* modulo d, so every intermediate value stays small.                      *)
(***************************************************************************)
RECURSIVE FloorLog2Ge(_, _)
FloorLog2Ge(n, d) == IF 2 * d <= n THEN 1 + FloorLog2Ge(n, 2 * d) ELSE 0

RECURSIVE FloorLog2Lt(_, _)
FloorLog2Lt(n, d) == IF n < d THEN FloorLog2Lt(2 * n, d) - 1 ELSE 0

(* floor(log2(n/d)) for n, d >= 1 *)
FloorLog2(n, d) == IF n >= d THEN FloorLog2Ge(n, d) ELSE FloorLog2Lt(n, d)

RECURSIVE Pow2(_)
Pow2(e) == IF e = 0 THEN 1 ELSE 2 * Pow2(e - 1)

IsPow2(k) == k = Pow2(FloorLog2(k, 1))

(* (n * 2^s) mod d *)
RECURSIVE MulPow2Mod(_, _, _)
MulPow2Mod(n, s, d) == IF s = 0 THEN n % d ELSE (2 * MulPow2Mod(n, s - 1, d)) % d

(* float(n) / float(d) for integers n, d >= 1 *)
FloatDiv(n, d) ==
    LET s == DOUBLE_MANTISSA_BITS - FloorLog2(n, d)
        rho == MulPow2Mod(n, s, d)
        lastbit == (2 * MulPow2Mod(n, s - 1, d)) \div d
        roundup == \/ 2 * rho > d
                   \/ 2 * rho = d /\ lastbit = 1
    IN  [n |-> n, d |-> d, s |-> s, c |-> IF roundup THEN d - rho ELSE 0 - rho]

(***************************************************************************)
(* The integer part of the double a / q, q a double as FloatDiv returns    *)
(* it.  The exact quotient is y = a*d*2^s / (n*2^s + c).  Rounding is      *)
(* monotone and every integer k in range is a double, so the rounded       *)
(* quotient is >= k exactly when y >= k - h(k), h(k) being half the gap    *)
(* between k and the double below it (2^-t, t = 53 - floor(log2 k), one    *)
(* more when k is a power of two).  With k0 = floor(a*d/n):                *)
(*   - a*d is not a multiple of n: y is further than 1/n from any integer, *)
(*     the rounding errors are below 2^-40, so the integer part is k0;     *)
(*   - a*d = k0*n and c <= 0: y >= k0, the integer part is k0;             *)
(*   - a*d = k0*n and c > 0: y = k0*n*2^s / (n*2^s + c) < k0, and the      *)
(*     double is k0 only if n*2^s + c >= k0*c*2^t; otherwise it is the     *)
(*     double just below k0 and the integer part is k0 - 1.                *)
(***************************************************************************)
TruncFloatDiv(a, q) ==
    LET k0 == (a * q.d) \div q.n
        exact == a * q.d = k0 * q.n
        f == FloorLog2(k0, 1)
        t == IF IsPow2(k0) THEN DOUBLE_MANTISSA_BITS + 2 - f ELSE DOUBLE_MANTISSA_BITS + 1 - f
        reaches == IF t >= q.s
                   THEN q.n >= k0 * q.c * Pow2(t - q.s)
                   ELSE q.n * Pow2(q.s - t) >= k0 * q.c
    IN  IF exact /\ q.c > 0 /\ ~reaches THEN k0 - 1 ELSE k0

Max(a, b) == IF a >= b THEN a ELSE b
Min(a, b) == IF a <= b THEN a ELSE b

(***************************************************************************)
(* GoveeRateLimiter (rate_limiter.py).  A tracker value m holds the three  *)
(* fields of the instance and the content of its storage file: <<>> when   *)
(* the file is absent, <<object>> when it holds a JSON object, Unreadable  *)
(* when json.load or the lookups in its result raise.  now is the day      *)
(* datetime.now() reports, w tells whether the storage accepts a write.    *)
(***************************************************************************)
Unreadable == <<"not", "an object">>
IsJsonObject(file) == Len(file) = 1

(* None, the value of dict.get for a missing key *)
None == <<"None">>

(* dict.get(key, default) *)
Get(data, key, default) == IF key \in DOMAIN data THEN data[key] ELSE default

Record(m) == [last_reset_date |-> m.last_reset_date,
              request_count |-> m.request_count,
              device_count |-> m.device_count]

(* _save_rate_limit_data: a failed write is logged, never raised *)
save_rate_limit_data(m, w) ==
    IF w THEN [m EXCEPT !.storage = <<Record(m)>>] ELSE m

(* _reset_rate_limit_data *)
reset_rate_limit_data(m, now, w) ==
    save_rate_limit_data([m EXCEPT !.last_reset_date = strftime(now),
                                   !.request_count = 0,
                                   !.device_count = 0], w)

(* variant: the device count is not read back *)
load_rate_limit_data_drops_devices(file, now, w) ==
    IF IsJsonObject(file)
    THEN [last_reset_date |-> Get(file[1], "last_reset_date", None),
          request_count |-> Get(file[1], "request_count", 0),
          device_count |-> 0,
          storage |-> file]
    ELSE reset_rate_limit_data([last_reset_date |-> None, request_count |-> 0,
                                device_count |-> 0, storage |-> file], now, w)

(* variant: the date is looked up under a key the record does not have *)
load_rate_limit_data_wrong_key(file, now, w) ==
    IF IsJsonObject(file)
    THEN [last_reset_date |-> Get(file[1], "last_reset", None),
          request_count |-> Get(file[1], "request_count", 0),
          device_count |-> Get(file[1], "device_count", 0),
          storage |-> file]
    ELSE reset_rate_limit_data([last_reset_date |-> None, request_count |-> 0,
                                device_count |-> 0, storage |-> file], now, w)

(* _load_rate_limit_data, run by __init__ on the content of the file: the  *)
(* fields of a JSON object are taken as they are, a missing key gives its  *)
(* default; an absent file and any exception give a reset                  *)
load_rate_limit_data(file, now, w) ==
    IF IsJsonObject(file)
    THEN [last_reset_date |-> Get(file[1], "last_reset_date", None),
          request_count |-> Get(file[1], "request_count", 0),
          device_count |-> Get(file[1], "device_count", 0),
          storage |-> file]
    ELSE reset_rate_limit_data([last_reset_date |-> None, request_count |-> 0,
                                device_count |-> 0, storage |-> file], now, w)

(* variant: the date comparison is lost and no operation ever resets *)
check_and_reset_daily_never(m, now, w) == m

(* variant: the date comparison is lost and every operation resets *)
check_and_reset_daily_always(m, now, w) == reset_rate_limit_data(m, now, w)

(* variant: the record is written again on a date that needs no reset *)
check_and_reset_daily_resaves(m, now, w) ==
    IF m.last_reset_date # strftime(now) THEN reset_rate_limit_data(m, now, w)
    ELSE save_rate_limit_data(m, w)

(* _check_and_reset_daily *)
check_and_reset_daily(m, now, w) ==
    IF m.last_reset_date # strftime(now) THEN reset_rate_limit_data(m, now, w) ELSE m

(* variant: the count advances by two *)
increment_request_count_twice(m, now, w) ==
    LET m1 == check_and_reset_daily(m, now, w)
    IN  save_rate_limit_data([m1 EXCEPT !.request_count = m1.request_count + 2], w)

(* variant: the count advances only when the record can be written *)
increment_request_count_if_saved(m, now, w) ==
    LET m1 == check_and_reset_daily(m, now, w)
    IN  IF w THEN save_rate_limit_data([m1 EXCEPT !.request_count = m1.request_count + 1], w)
        ELSE m1

(* increment_request_count *)
increment_request_count(m, now, w) ==
    LET m1 == check_and_reset_daily(m, now, w)
    IN  save_rate_limit_data([m1 EXCEPT !.request_count = m1.request_count + 1], w)

(* variant: the record is written whether or not the count changed *)
update_device_count_always_saves(m, count, now, w) ==
    LET m1 == check_and_reset_daily(m, now, w)
    IN  save_rate_limit_data([m1 EXCEPT !.device_count = count], w)

(* variant: the new device count is kept in memory only *)
update_device_count_unsaved(m, count, now, w) ==
    LET m1 == check_and_reset_daily(m, now, w)
    IN  [m1 EXCEPT !.device_count = count]

(* update_device_count *)
update_device_count(m, count, now, w) ==
    LET m1 == check_and_reset_daily(m, now, w)
    IN  IF m1.device_count # count
        THEN save_rate_limit_data([m1 EXCEPT !.device_count = count], w)
        ELSE m1

(* variant: the floor at zero is lost *)
remaining_requests_signed(m) == SAFE_REQUEST_LIMIT - m.request_count

(* get_remaining_requests: the value returned, on the tracker after its check *)
remaining_requests(m) == Max(0, SAFE_REQUEST_LIMIT - m.request_count)

(* variant: the ratio is not multiplied by 100 *)
usage_percentage_ratio(m) == [num |-> m.request_count, den |-> SAFE_REQUEST_LIMIT]

(* get_usage_percentage: (request_count / SAFE_REQUEST_LIMIT) * 100 as a fraction *)
usage_percentage(m) == [num |-> m.request_count * 100, den |-> SAFE_REQUEST_LIMIT]

(* can_make_request: the value returned, on the tracker after its check *)
can_make_request(m) == remaining_requests(m) > 0

(* the clamped, truncated interval for a double quotient q *)
ClampedInterval(q) ==
    Max(MIN_POLLING_INTERVAL, Min(MAX_POLLING_INTERVAL, TruncFloatDiv(SECONDS_PER_DAY, q)))

(* variant: an exhausted quota falls through to the default interval *)
adaptive_polling_interval_default_at_limit(m) ==
    IF m.device_count = 0 \/ remaining_requests(m) <= 0 THEN DEFAULT_POLLING_INTERVAL
    ELSE ClampedInterval(FloatDiv(remaining_requests(m), m.device_count))

(* variant: an exhausted quota gives the minimum interval *)
adaptive_polling_interval_min_at_limit(m) ==
    IF m.device_count = 0 THEN DEFAULT_POLLING_INTERVAL
    ELSE IF remaining_requests(m) <= 0 THEN MIN_POLLING_INTERVAL
    ELSE ClampedInterval(FloatDiv(remaining_requests(m), m.device_count))

(* variant: the remaining budget is multiplied by the device count *)
adaptive_polling_interval_times_devices(m) ==
    IF m.device_count = 0 THEN DEFAULT_POLLING_INTERVAL
    ELSE IF remaining_requests(m) <= 0 THEN MAX_POLLING_INTERVAL
    ELSE ClampedInterval(FloatDiv(remaining_requests(m) * m.device_count, 1))

(* variant: the upper clamp is lost *)
adaptive_polling_interval_no_upper_clamp(m) ==
    IF m.device_count = 0 THEN DEFAULT_POLLING_INTERVAL
    ELSE IF remaining_requests(m) <= 0 THEN MAX_POLLING_INTERVAL
    ELSE Max(MIN_POLLING_INTERVAL,
             TruncFloatDiv(SECONDS_PER_DAY, FloatDiv(remaining_requests(m), m.device_count)))

(* variant: the exhausted quota is tested before the device count *)
adaptive_polling_interval_limit_first(m) ==
    IF remaining_requests(m) <= 0 THEN MAX_POLLING_INTERVAL
    ELSE IF m.device_count = 0 THEN DEFAULT_POLLING_INTERVAL
    ELSE ClampedInterval(FloatDiv(remaining_requests(m), m.device_count))

(* get_adaptive_polling_interval: the value returned, on the tracker after its check *)
adaptive_polling_interval(m) ==
    IF m.device_count = 0 THEN DEFAULT_POLLING_INTERVAL
    ELSE IF remaining_requests(m) <= 0 THEN MAX_POLLING_INTERVAL
    ELSE IF m.device_count > 0
         THEN LET requests_per_device_per_day == FloatDiv(remaining_requests(m), m.device_count)
                  optimal_interval == TruncFloatDiv(SECONDS_PER_DAY, requests_per_device_per_day)
              IN  Max(MIN_POLLING_INTERVAL, Min(MAX_POLLING_INTERVAL, optimal_interval))
         ELSE DEFAULT_POLLING_INTERVAL

(* get_rate_limit_status: the snapshot returned, on the tracker after its check *)
rate_limit_status(m) ==
    [request_count |-> m.request_count,
     device_count |-> m.device_count,
     remaining_requests |-> remaining_requests(m),
     usage_percentage |-> usage_percentage(m),
     can_make_request |-> can_make_request(m),
     adaptive_polling_interval |-> adaptive_polling_interval(m),
     last_reset_date |-> m.last_reset_date]

(***************************************************************************)
(* get_rate_limit_status read by read.  Every _check_and_reset_daily the   *)
(* call runs reads the clock again; StatusClockReads lists the methods     *)
(* whose check reads it, in the order of the call.  Midnight falls before  *)
(* read k (k = 0: not during the call): read i sees the next day when      *)
(* k # 0 and i >= k.                                                       *)
(***************************************************************************)
StatusClockReads ==
    <<"get_rate_limit_status", "get_remaining_requests", "get_usage_percentage",
      "can_make_request", "get_adaptive_polling_interval", "get_remaining_requests">>

DateAtRead(now, k, i) == IF k # 0 /\ i >= k THEN now + 1 ELSE now

(* get_adaptive_polling_interval with its own check on day d1 and the      *)
(* check of its get_remaining_requests call on day d2: the value returned  *)
(* and the tracker left                                                    *)
adaptive_polling_interval_at(m, d1, d2, w) ==
    LET m1 == check_and_reset_daily(m, d1, w)
        m2 == check_and_reset_daily(m1, d2, w)
    IN  IF m1.device_count = 0 THEN [value |-> DEFAULT_POLLING_INTERVAL, m |-> m1]
        ELSE IF remaining_requests(m2) <= 0 THEN [value |-> MAX_POLLING_INTERVAL, m |-> m2]
        ELSE IF m2.device_count > 0
             THEN [value |-> ClampedInterval(FloatDiv(remaining_requests(m2), m2.device_count)),
                   m |-> m2]
             ELSE [value |-> DEFAULT_POLLING_INTERVAL, m |-> m2]

(* get_rate_limit_status with midnight before clock read k: the dict       *)
(* returned, its entries evaluated in the order written, and the tracker   *)
(* left                                                                    *)
get_rate_limit_status_at(m, now, k, w) ==
    LET m1 == check_and_reset_daily(m, DateAtRead(now, k, 1), w)
        m2 == check_and_reset_daily(m1, DateAtRead(now, k, 2), w)
        m3 == check_and_reset_daily(m2, DateAtRead(now, k, 3), w)
        m4 == check_and_reset_daily(m3, DateAtRead(now, k, 4), w)
        iv == adaptive_polling_interval_at(m4, DateAtRead(now, k, 5), DateAtRead(now, k, 6), w)
    IN  [value |-> [request_count |-> m1.request_count,
                    device_count |-> m1.device_count,
                    remaining_requests |-> remaining_requests(m2),
                    usage_percentage |-> usage_percentage(m3),
                    can_make_request |-> can_make_request(m4),
                    adaptive_polling_interval |-> iv.value,
                    last_reset_date |-> iv.m.last_reset_date],
         m |-> iv.m]

(***************************************************************************)
(* State.                                                                  *)
(*   today                 the calendar day datetime.now() reports         *)
(*   writable              whether the storage file accepts a write        *)
(*   enable_rate_limiting  GoveeAPI.enable_rate_limiting                   *)
(*   last_reset_date, request_count, device_count                          *)
(*                         the fields of GoveeAPI.rate_limiter             *)
(*   storage               the content of the tracker's storage file       *)
(*   calls                 per call slot, the API operation whose          *)
(*                         _make_request awaits the vendor, or "idle"      *)
(*   ret                   what the last operation returned or raised      *)
(*   sent                  HTTP requests handed to the session (history)   *)
(*   base, counted         request_count at construction or at the last    *)
(*                         rollover, and the increments recorded since     *)
(*                         (history)                                       *)
(*   resets_today          rollovers performed on the current day          *)
(*                         (history)                                       *)
(*   origin                where last_reset_date comes from (history): the *)
(*                         day the instance was constructed, the date the  *)
(*                         loaded record held (until the first reset) and  *)
(*                         the day of the most recent reset, 0 before any  *)
(*   enumerated            the device count of the most recent successful  *)
(*                         enumeration, at construction the loaded one     *)
(*                         (history)                                       *)
(*   peer                  the fields of the tracker of a second API       *)
(*                         client constructed on the same storage file,    *)
(*                         and the requests it recorded; NoPeer when there *)
(*                         is one client only                              *)
(***************************************************************************)
VARIABLES today, writable, enable_rate_limiting,
          last_reset_date, request_count, device_count, storage,
          calls, ret, sent, base, counted, resets_today, origin, enumerated, peer

vars == <<today, writable, enable_rate_limiting,
          last_reset_date, request_count, device_count, storage,
          calls, ret, sent, base, counted, resets_today, origin, enumerated, peer>>

Tracker == [last_reset_date |-> last_reset_date, request_count |-> request_count,
            device_count |-> device_count, storage |-> storage]

(* no date: the loaded record is absent, or no longer where the date comes from *)
NoDate == <<>>

(* the tracker becomes m; rolled tells whether the operation reset it and  *)
(* recorded how many increments it recorded                                *)
SetTracker(m, rolled, recorded) ==
    /\ last_reset_date' = m.last_reset_date
    /\ request_count' = m.request_count
    /\ device_count' = m.device_count
    /\ storage' = m.storage
    /\ base' = IF rolled THEN 0 ELSE base
    /\ counted' = (IF rolled THEN 0 ELSE counted) + recorded
    /\ resets_today' = IF rolled THEN resets_today + 1 ELSE resets_today
    /\ origin' = IF rolled THEN [origin EXCEPT !.loaded = NoDate, !.reset = today]
                  ELSE origin

TrackerUnchanged ==
    UNCHANGED <<last_reset_date, request_count, device_count, storage,
                base, counted, resets_today, origin>>

(* whether _check_and_reset_daily, run now, resets the tracker *)
Rolls == check_and_reset_daily(Tracker, today, writable).last_reset_date # last_reset_date

Kinds == {"get_devices", "get_device_state", "control_device"}
Outcomes == {"code_200", "code_other", "http_error", "http_429", "network_error", "invalid_json"}
RateLimitReached == "Rate limit reached for today"

(* storage records a tracker of an earlier run left behind *)
StoredRecords(dates, counts, devices) ==
    { <<[last_reset_date |-> strftime(d), request_count |-> r, device_count |-> n]>> :
        d \in dates, r \in counts, n \in devices }

NoReturn == [op |-> "none"]

(* no second API client *)
NoPeer == [last_reset_date |-> None, request_count |-> 0, device_count |-> 0, counted |-> 0]

(* GoveeAPI.__init__ on day 1: the tracker is constructed from the storage *)
(* file when rate limiting is enabled; without it there is no tracker and  *)
(* the tracker variables keep the values of a fresh one.                   *)
InitFrom(files, enabled, writes) ==
    /\ today = 1
    /\ writable \in writes
    /\ enable_rate_limiting \in enabled
    /\ \E file \in files :
          LET m == IF enable_rate_limiting
                   THEN load_rate_limit_data(file, today, writable)
                   ELSE [last_reset_date |-> strftime(today), request_count |-> 0,
                         device_count |-> 0, storage |-> file]
          IN  /\ last_reset_date = m.last_reset_date
              /\ request_count = m.request_count
              /\ device_count = m.device_count
              /\ storage = m.storage
              /\ base = m.request_count
              /\ enumerated = m.device_count
              /\ origin = [constructed |-> today,
                           loaded |-> IF enable_rate_limiting /\ IsJsonObject(file)
                                      THEN Get(file[1], "last_reset_date", None)
                                      ELSE NoDate,
                           reset |-> 0]
    /\ calls = [c \in Slots |-> "idle"]
    /\ peer = NoPeer
    /\ ret = NoReturn
    /\ sent = 0
    /\ counted = 0
    /\ resets_today = 0

Init == InitFrom({<<>>} \cup StoredRecords({0, 1}, LoadedCounts, LoadedDevices), BOOLEAN, BOOLEAN)

(***************************************************************************)
(* Environment.                                                            *)
(***************************************************************************)
(* midnight passes *)
Tick ==
    /\ today < MaxDay
    /\ today' = today + 1
    /\ resets_today' = 0
    /\ ret' = NoReturn
    /\ UNCHANGED <<writable, enable_rate_limiting, last_reset_date, request_count,
                   device_count, storage, calls, sent, base, counted, origin,
                   enumerated, peer>>

(* the storage file stops or resumes accepting writes *)
StorageFault ==
    /\ writable' = ~writable
    /\ UNCHANGED <<today, enable_rate_limiting, last_reset_date, request_count,
                   device_count, storage, calls, ret, sent, base, counted, resets_today,
                   origin, enumerated, peer>>

(***************************************************************************)
(* Tracker operations called on GoveeAPI.rate_limiter.                     *)
(***************************************************************************)
ApiUnchanged == UNCHANGED <<today, writable, enable_rate_limiting, calls, sent, peer>>

IncrementRequestCount(cap) ==
    /\ enable_rate_limiting
    /\ counted < cap
    /\ SetTracker(increment_request_count(Tracker, today, writable), Rolls, 1)
    /\ ret' = [op |-> "increment_request_count"]
    /\ UNCHANGED enumerated
    /\ ApiUnchanged

UpdateDeviceCount(n) ==
    /\ enable_rate_limiting
    /\ SetTracker(update_device_count(Tracker, n, today, writable), Rolls, 0)
    /\ ret' = [op |-> "update_device_count"]
    /\ enumerated' = n
    /\ ApiUnchanged

(* a query: the daily check, then the value computed on the checked tracker *)
QueryValue(name, m) ==
    CASE name = "get_remaining_requests" -> remaining_requests(m)
      [] name = "get_usage_percentage" -> usage_percentage(m)
      [] name = "can_make_request" -> can_make_request(m)
      [] name = "get_adaptive_polling_interval" -> adaptive_polling_interval(m)
      [] name = "get_rate_limit_status" -> rate_limit_status(m)

(* variant: a query is counted as a request *)
Query_counted(name) ==
    LET m == increment_request_count(Tracker, today, writable)
    IN  /\ enable_rate_limiting
        /\ SetTracker(m, Rolls, 0)
        /\ ret' = [op |-> name, value |-> QueryValue(name, m)]
        /\ UNCHANGED enumerated
        /\ ApiUnchanged

Query(name) ==
    LET m == check_and_reset_daily(Tracker, today, writable)
    IN  /\ enable_rate_limiting
        /\ SetTracker(m, Rolls, 0)
        /\ ret' = [op |-> name, value |-> QueryValue(name, m)]
        /\ UNCHANGED enumerated
        /\ ApiUnchanged

GetRemainingRequests == Query("get_remaining_requests")
GetUsagePercentage == Query("get_usage_percentage")
CanMakeRequest == Query("can_make_request")
GetAdaptivePollingInterval == Query("get_adaptive_polling_interval")
GetRateLimitStatus == Query("get_rate_limit_status")

TrackerOps == {"increment_request_count", "update_device_count", "get_remaining_requests",
               "get_usage_percentage", "can_make_request", "get_adaptive_polling_interval",
               "get_rate_limit_status"}

(***************************************************************************)
(* GoveeAPI (govee_api.py).                                                *)
(***************************************************************************)
(* variant: the gate only refuses a negative remainder, which never occurs *)
gate_refuses_never(enabled, m) == enabled /\ remaining_requests(m) < 0

(* _make_request, the gate: "if self.rate_limiter and not                  *)
(* self.rate_limiter.can_make_request()", on the tracker after the check   *)
(* can_make_request runs                                                   *)
gate_refuses(enabled, m) == enabled /\ ~can_make_request(m)

(* variant: a failed enumeration returns the device list of an earlier one *)
FailureValue_cached(kind) ==
    CASE kind = "get_devices" -> <<1>>
      [] kind = "get_device_state" -> "None"
      [] kind = "control_device" -> FALSE

(* what get_devices / get_device_state / control_device return when        *)
(* _make_request raised, or the body's code is not 200                     *)
FailureValue(kind) ==
    CASE kind = "get_devices" -> <<>>
      [] kind = "get_device_state" -> "None"
      [] kind = "control_device" -> FALSE

(* what they return for a body with code 200, n devices being listed *)
SuccessValue(kind, n) ==
    CASE kind = "get_devices" -> [i \in 1..n |-> i]
      [] kind = "get_device_state" -> "data"
      [] kind = "control_device" -> TRUE

(* the exception _make_request raises for an outcome of the HTTP exchange *)
Raised(outcome) ==
    CASE outcome = "http_429" -> "Rate limit exceeded"
      [] outcome = "http_error" -> "ClientResponseError"
      [] outcome = "network_error" -> "ClientError"
      [] outcome = "invalid_json" -> "Exception"
      [] OTHER -> "none"

(* a public operation starts: _make_request checks the gate and either     *)
(* raises, which the operation catches and logs, or hands the request to   *)
(* the session and awaits the response                                     *)
Enter(c, kind, sequential) ==
    LET m == IF enable_rate_limiting
             THEN check_and_reset_daily(Tracker, today, writable)
             ELSE Tracker
    IN  /\ calls[c] = "idle"
        /\ sequential => \A o \in Slots : calls[o] = "idle"
        /\ gate_refuses(enable_rate_limiting, m) \/ sent < MaxSent
        /\ SetTracker(m, enable_rate_limiting /\ Rolls, 0)
        /\ IF gate_refuses(enable_rate_limiting, m)
           THEN /\ ret' = [op |-> kind, raised |-> RateLimitReached, value |-> FailureValue(kind)]
                /\ UNCHANGED <<calls, sent>>
           ELSE /\ calls' = [calls EXCEPT ![c] = kind]
                /\ sent' = sent + 1
                /\ ret' = [op |-> "_make_request", raised |-> "none", value |-> "awaiting"]
        /\ UNCHANGED <<today, writable, enable_rate_limiting, enumerated, peer>>

(* the response arrives: _make_request counts a parsed response and        *)
(* returns it, or raises; get_devices records the number of devices of a   *)
(* code-200 body and logs the status                                       *)
Respond(c, outcome, n) ==
    LET kind == calls[c]
        parsed == outcome \in {"code_200", "code_other"}
        m1 == IF parsed /\ enable_rate_limiting
              THEN increment_request_count(Tracker, today, writable)
              ELSE Tracker
        m2 == IF outcome = "code_200" /\ kind = "get_devices" /\ enable_rate_limiting
              THEN check_and_reset_daily(update_device_count(m1, n, today, writable),
                                         today, writable)
              ELSE m1
    IN  /\ calls[c] # "idle"
        /\ SetTracker(m2, parsed /\ enable_rate_limiting /\ Rolls,
                      IF parsed /\ enable_rate_limiting THEN 1 ELSE 0)
        /\ calls' = [calls EXCEPT ![c] = "idle"]
        /\ ret' = [op |-> kind, raised |-> Raised(outcome),
                   value |-> IF outcome = "code_200" THEN SuccessValue(kind, n)
                             ELSE FailureValue(kind)]
        /\ enumerated' = IF outcome = "code_200" /\ kind = "get_devices" /\ enable_rate_limiting
                          THEN n ELSE enumerated
        /\ UNCHANGED <<today, writable, enable_rate_limiting, sent, peer>>

(* GoveeAPI.get_rate_limit_status and GoveeAPI.get_adaptive_polling_interval *)
ApiQuery(name, default) ==
    IF enable_rate_limiting
    THEN Query(name)
    ELSE /\ ret' = [op |-> name, value |-> default]
         /\ TrackerUnchanged
         /\ UNCHANGED enumerated
         /\ ApiUnchanged

ApiGetRateLimitStatus == ApiQuery("get_rate_limit_status", "None")
ApiGetAdaptivePollingInterval ==
    ApiQuery("get_adaptive_polling_interval", 120)

(***************************************************************************)
(* Spec: one API client whose operations run strictly one at a time.       *)
(***************************************************************************)
Call == \E c \in Slots, kind \in Kinds : Enter(c, kind, TRUE)
Response == \E c \in Slots, outcome \in Outcomes, n \in EnumeratedCounts : Respond(c, outcome, n)

Next ==
    \/ Call
    \/ Response
    \/ ApiGetRateLimitStatus
    \/ ApiGetAdaptivePollingInterval
    \/ Tick
    \/ StorageFault

Spec == Init /\ [][Next]_vars

(***************************************************************************)
(* SpecTracker: the operations of one GoveeRateLimiter called directly.    *)
(***************************************************************************)
InitTracker == InitFrom({<<>>} \cup StoredRecords({0, 1}, LoadedCounts, LoadedDevices), {TRUE}, BOOLEAN)

RecordRequest == IncrementRequestCount(MaxRecorded)
RecordDeviceCount == \E n \in EnumeratedCounts : UpdateDeviceCount(n)

NextTracker ==
    \/ RecordRequest
    \/ RecordDeviceCount
    \/ GetRemainingRequests
    \/ GetUsagePercentage
    \/ CanMakeRequest
    \/ GetAdaptivePollingInterval
    \/ GetRateLimitStatus
    \/ Tick
    \/ StorageFault

SpecTracker == InitTracker /\ [][NextTracker]_vars

(***************************************************************************)
(* SpecConcurrent: one API client whose operations overlap: the            *)
(* coordinators of the devices, the enumeration and the control commands   *)
(* await their responses on one event loop, so an operation may enter      *)
(* _make_request while others await theirs.                                *)
(***************************************************************************)
InitConcurrent ==
    InitFrom({<<>>} \cup StoredRecords({0, 1}, LoadedCounts, LoadedDevices), {TRUE}, {TRUE})

CallConcurrent == \E c \in Slots, kind \in Kinds : Enter(c, kind, FALSE)

NextConcurrent ==
    \/ CallConcurrent
    \/ Response
    \/ Tick

SpecConcurrent == InitConcurrent /\ [][NextConcurrent]_vars

(***************************************************************************)
(* SpecRestart: the tracker operations, and restarts of the process: a new *)
(* GoveeRateLimiter is constructed on the storage the last one left.  base *)
(* and counted go on counting across the instances.                        *)
(***************************************************************************)
Restart ==
    LET m == load_rate_limit_data(storage, today, writable)
    IN  /\ enable_rate_limiting
        /\ last_reset_date' = m.last_reset_date
        /\ request_count' = m.request_count
        /\ device_count' = m.device_count
        /\ storage' = m.storage
        /\ resets_today' = 0
        /\ origin' = [constructed |-> today,
                      loaded |-> IF IsJsonObject(storage)
                                 THEN Get(storage[1], "last_reset_date", None) ELSE NoDate,
                      reset |-> 0]
        /\ ret' = [op |-> "__init__"]
        /\ enumerated' = m.device_count
        /\ UNCHANGED <<base, counted>>
        /\ ApiUnchanged

NextRestart ==
    \/ NextTracker
    \/ Restart

SpecRestart == InitTracker /\ [][NextRestart]_vars

(***************************************************************************)
(* SpecStatus: the tracker with get_rate_limit_status calls during which   *)
(* the calendar date may advance.                                          *)
(***************************************************************************)
GetRateLimitStatusAt(k) ==
    LET r == get_rate_limit_status_at(Tracker, today, k, writable)
        rolled == r.m.last_reset_date # last_reset_date
        after == r.m.last_reset_date = strftime(today + 1)
    IN  /\ enable_rate_limiting
        /\ k # 0 => today < MaxDay
        /\ today' = IF k # 0 THEN today + 1 ELSE today
        /\ last_reset_date' = r.m.last_reset_date
        /\ request_count' = r.m.request_count
        /\ device_count' = r.m.device_count
        /\ storage' = r.m.storage
        /\ base' = IF rolled THEN 0 ELSE base
        /\ counted' = IF rolled THEN 0 ELSE counted
        /\ resets_today' = IF k # 0 THEN (IF rolled /\ after THEN 1 ELSE 0)
                           ELSE IF rolled THEN resets_today + 1 ELSE resets_today
        /\ origin' = IF rolled
                      THEN [origin EXCEPT !.loaded = NoDate,
                                          !.reset = IF after THEN today + 1 ELSE today]
                      ELSE origin
        /\ ret' = [op |-> "get_rate_limit_status", value |-> r.value]
        /\ UNCHANGED <<writable, enable_rate_limiting, calls, sent, enumerated, peer>>

NextStatus ==
    \/ RecordRequest
    \/ RecordDeviceCount
    \/ \E k \in 0..Len(StatusClockReads) : GetRateLimitStatusAt(k)
    \/ Tick
    \/ StorageFault

SpecStatus == InitTracker /\ [][NextStatus]_vars

(***************************************************************************)
(* SpecLoad: the tracker operations on an instance constructed on storage  *)
(* that is absent, unreadable, or a JSON object that is not a record of a  *)
(* date string and two non-negative integers.                              *)
(***************************************************************************)
InvalidFiles ==
    {<<>>, Unreadable,
     <<[request_count |-> 500, device_count |-> MaxEnumerated]>>,
     <<[last_reset_date |-> None, request_count |-> 0, device_count |-> 0]>>,
     <<[last_reset_date |-> strftime(1), request_count |-> -1, device_count |-> 0]>>,
     <<[last_reset_date |-> strftime(1), request_count |-> 500, device_count |-> -1]>>,
     <<[last_reset_date |-> strftime(0), request_count |-> -1, device_count |-> -1]>>}

InitLoad == InitFrom(InvalidFiles, {TRUE}, BOOLEAN)

SpecLoad == InitLoad /\ [][NextTracker]_vars

(***************************************************************************)
(* SpecPersist: one tracker whose writes to storage always succeed, over   *)
(* restarts of the process, started on any storage file.                   *)
(***************************************************************************)
InitPersist ==
    InitFrom(InvalidFiles \cup StoredRecords({0, 1}, LoadedCounts, LoadedDevices), {TRUE}, {TRUE})

NextPersist ==
    \/ RecordRequest
    \/ RecordDeviceCount
    \/ GetRemainingRequests
    \/ GetUsagePercentage
    \/ CanMakeRequest
    \/ GetAdaptivePollingInterval
    \/ GetRateLimitStatus
    \/ Tick
    \/ Restart

SpecPersist == InitPersist /\ [][NextPersist]_vars

(***************************************************************************)
(* SpecTwo: two API clients of one installation on one day, each with its  *)
(* own GoveeRateLimiter on the default storage file.  The state variables  *)
(* of the tracker are the first client's tracker; peer is the tracker of   *)
(* the second client, which async_setup_entry constructs from the file as  *)
(* it is then.                                                             *)
(***************************************************************************)
PeerTracker == [last_reset_date |-> peer.last_reset_date, request_count |-> peer.request_count,
                device_count |-> peer.device_count, storage |-> storage]

PeerRolls == check_and_reset_daily(PeerTracker, today, writable).last_reset_date # peer.last_reset_date

(* the memory of the second tracker and the shared file after an operation *)
(* of the second tracker; the first tracker's memory is not touched        *)
SetPeer(m, recorded) ==
    /\ peer' = [last_reset_date |-> m.last_reset_date, request_count |-> m.request_count,
                device_count |-> m.device_count,
                counted |-> (IF PeerRolls THEN 0 ELSE peer.counted) + recorded]
    /\ storage' = m.storage
    /\ UNCHANGED <<today, writable, enable_rate_limiting, last_reset_date, request_count,
                   device_count, calls, sent, base, counted, resets_today, origin,
                   enumerated>>

(* GoveeAPI(api_key, enable_rate_limiting) in async_setup_entry *)
PeerInit ==
    LET m == load_rate_limit_data(storage, today, writable)
    IN  /\ peer = NoPeer
        /\ peer' = [last_reset_date |-> m.last_reset_date, request_count |-> m.request_count,
                    device_count |-> m.device_count, counted |-> 0]
        /\ storage' = m.storage
        /\ ret' = [op |-> "__init__"]
        /\ UNCHANGED <<today, writable, enable_rate_limiting, last_reset_date, request_count,
                       device_count, calls, sent, base, counted, resets_today, origin,
                       enumerated>>

(* increment_request_count of the second client's tracker *)
PeerIncrementRequestCount ==
    /\ peer # NoPeer
    /\ peer.counted < MaxRecorded
    /\ SetPeer(increment_request_count(PeerTracker, today, writable), 1)
    /\ ret' = [op |-> "increment_request_count"]

(* update_device_count of the second client's tracker *)
PeerUpdateDeviceCount ==
    /\ peer # NoPeer
    /\ \E n \in EnumeratedCounts :
          SetPeer(update_device_count(PeerTracker, n, today, writable), 0)
    /\ ret' = [op |-> "update_device_count"]

InitTwo ==
    InitFrom({<<>>} \cup StoredRecords({0, 1}, LoadedCounts, LoadedDevices), {TRUE}, {TRUE})

NextTwo ==
    \/ RecordRequest
    \/ RecordDeviceCount
    \/ PeerInit
    \/ PeerIncrementRequestCount
    \/ PeerUpdateDeviceCount

SpecTwo == InitTwo /\ [][NextTwo]_vars

(***************************************************************************)
(* SpecInterval: get_adaptive_polling_interval on every tracker state of   *)
(* the current day, request counts running past the safety threshold.      *)
(***************************************************************************)
InitInterval ==
    InitFrom(StoredRecords({1}, 0..(SAFE_REQUEST_LIMIT + MaxOver), DeviceCounts), {TRUE}, {TRUE})

NextInterval ==
    \/ GetAdaptivePollingInterval
    \/ IncrementRequestCount(MaxSteps)

SpecInterval == InitInterval /\ [][NextInterval]_vars

(***************************************************************************)
(* Properties.                                                             *)
(***************************************************************************)
(* the tracker as the next operation's daily check leaves it *)
Checked == check_and_reset_daily(Tracker, today, writable)

(* the quota is exhausted on the current day: can_make_request() is false *)
Exhausted == last_reset_date = strftime(today) /\ request_count >= SAFE_REQUEST_LIMIT

(* C1: with rate limiting enabled, a public operation entered while        *)
(* can_make_request() is false sends no HTTP request, leaves request_count *)
(* and device_count as they were, and ends with the quota-exhausted error. *)
C1_RefusedCallSendsNothing ==
    [][\A c \in Slots, kind \in Kinds :
          (/\ enable_rate_limiting /\ Exhausted
           /\ today' = today /\ writable' = writable
           /\ ret'.op \in {kind, "_make_request"}
           /\ Enter(c, kind, TRUE)) =>
              /\ sent' = sent
              /\ calls' = calls
              /\ request_count' = request_count
              /\ device_count' = device_count
              /\ ret'.op = kind
              /\ ret'.raised = RateLimitReached]_vars

C1_Witness ==
    /\ enable_rate_limiting
    /\ Exhausted
    /\ ret.op \in Kinds
    /\ ret.raised = RateLimitReached
    /\ sent = MaxSent

(* C2: with calls issued one at a time from a fresh or loaded state,       *)
(* request_count never exceeds SAFE_REQUEST_LIMIT, and it equals its value *)
(* at construction or at the last rollover plus the number of successful   *)
(* calls since.                                                            *)
C2_SequentialCallsStayUnderLimit ==
    enable_rate_limiting =>
        /\ request_count <= SAFE_REQUEST_LIMIT
        /\ request_count = base + counted

C2_Witness ==
    /\ enable_rate_limiting
    /\ counted = 2
    /\ request_count = SAFE_REQUEST_LIMIT
    /\ \A c \in Slots : calls[c] = "idle"

(* the operations of the tracker *)
(* the steps of the tracker operations, told apart by the operation that   *)
(* returned                                                                *)
RequestRecorded == ret'.op = "increment_request_count" /\ RecordRequest
DeviceCountRecorded == ret'.op = "update_device_count" /\ RecordDeviceCount
IntervalCalled == ret'.op = "get_adaptive_polling_interval" /\ GetAdaptivePollingInterval
StatusCalled == ret'.op = "get_rate_limit_status" /\ GetRateLimitStatus
Restarted == ret'.op = "__init__" /\ Restart

TrackerQuery ==
    \/ ret'.op = "get_remaining_requests" /\ GetRemainingRequests
    \/ ret'.op = "get_usage_percentage" /\ GetUsagePercentage
    \/ ret'.op = "can_make_request" /\ CanMakeRequest
    \/ IntervalCalled
    \/ StatusCalled

TrackerOp == RequestRecorded \/ DeviceCountRecorded \/ TrackerQuery

(* C3: every tracker operation runs the daily check first: when it returns *)
(* last_reset_date is the current date, and if the date was stale the      *)
(* request count was reset before the operation's own effect and the new   *)
(* state written to storage (the write landing when storage accepts it).   *)
C3_EveryOperationRollsFirst ==
    [][TrackerOp =>
          /\ last_reset_date' = strftime(today)
          /\ last_reset_date # strftime(today) =>
                /\ request_count' = IF ret'.op = "increment_request_count" THEN 1 ELSE 0
                /\ writable => storage' = <<[last_reset_date |-> last_reset_date',
                                             request_count |-> request_count',
                                             device_count |-> device_count']>>]_vars

C3_Witness ==
    /\ today = 2
    /\ ret.op \in TrackerOps
    /\ resets_today = 1
    /\ last_reset_date = strftime(today)
    /\ request_count = 0
    /\ storage # <<>>
    /\ storage[1].last_reset_date = strftime(today)

(* C4: a daily rollover leaves device_count unchanged (stated on the       *)
(* queries, which have no effect of their own on device_count).            *)
C4_RolloverKeepsDeviceCount ==
    [][(TrackerQuery /\ last_reset_date # strftime(today)) =>
          device_count' = device_count]_vars

(* C5: on a date the tracker has already rolled to, no operation lowers    *)
(* request_count or resets again; the first operation on a date the        *)
(* tracker has not rolled to resets it, once.                              *)
C5_OneResetPerDate ==
    [][TrackerOp =>
          /\ last_reset_date = strftime(today) =>
                /\ request_count' >= request_count
                /\ resets_today' = resets_today
          /\ last_reset_date # strftime(today) =>
                /\ resets_today' = 1
                /\ request_count' <= 1
          /\ resets_today' <= 1]_vars

C5_Witness ==
    /\ today = 2
    /\ resets_today = 1
    /\ counted >= 1
    /\ ret.op \in TrackerOps
    /\ ret.op # "increment_request_count"
    /\ request_count >= 1

IntervalReturned == ret.op = "get_adaptive_polling_interval"

Clamp(x) == Max(MIN_POLLING_INTERVAL, Min(MAX_POLLING_INTERVAL, x))

(* C6: for device_count >= 1 and remaining() >= 1, interval() is           *)
(* 86400 * device_count / remaining() clamped to [60, 300] and truncated;  *)
(* 10 devices at request_count 0 give 96, 1 device at 8999 gives 300.      *)
C6_IntervalIsClampedQuotient ==
    (IntervalReturned /\ device_count >= 1 /\ remaining_requests(Tracker) >= 1) =>
        /\ ret.value = Clamp((SECONDS_PER_DAY * device_count) \div remaining_requests(Tracker))
        /\ (device_count = 10 /\ request_count = 0) => ret.value = 96
        /\ (device_count = 1 /\ request_count = SAFE_REQUEST_LIMIT - 1) => ret.value = 300

(* C7 as stated: whenever remaining() = 0, interval() returns 300.         *)
C7_ExhaustedGivesMax ==
    (IntervalReturned /\ remaining_requests(Tracker) = 0) => ret.value = MAX_POLLING_INTERVAL

(* C7, amended: whenever remaining() = 0 and device_count >= 1, interval() *)
(* returns 300; with device_count = 0 it returns the default 120.          *)
C7_ExhaustedWithDevicesGivesMax ==
    (IntervalReturned /\ remaining_requests(Tracker) = 0) =>
        ret.value = IF device_count >= 1 THEN MAX_POLLING_INTERVAL ELSE DEFAULT_POLLING_INTERVAL

C7_Witness ==
    /\ IntervalReturned
    /\ request_count > SAFE_REQUEST_LIMIT
    /\ device_count >= 1
    /\ ret.value = MAX_POLLING_INTERVAL

(* interval() on the current tracker with another device count *)
IntervalWithDevices(n) == adaptive_polling_interval([Tracker EXCEPT !.device_count = n])

(* C8 as stated: with remaining() fixed, interval() at any device count    *)
(* m >= 0 below the current one is at most the current interval().         *)
C8_MonotoneInDevices ==
    IntervalReturned => \A n \in 0..device_count : IntervalWithDevices(n) <= ret.value

(* C8, amended: with remaining() fixed, for device counts 1 <= m <= n      *)
(* interval() at m is at most interval() at n.                             *)
C8_MonotoneInPositiveDevices ==
    IntervalReturned => \A n \in 1..device_count : IntervalWithDevices(n) <= ret.value

C8_Witness ==
    /\ IntervalReturned
    /\ device_count = 10
    /\ IntervalWithDevices(1) < IntervalWithDevices(5)
    /\ IntervalWithDevices(5) < ret.value

(* C9: with device_count and the date fixed, interval() never gets shorter *)
(* as request_count grows: each recorded request leaves interval() at      *)
(* least what it was.                                                      *)
C9_MonotoneInConsumption ==
    [][(today' = today /\ device_count' = device_count /\ request_count' > request_count) =>
          adaptive_polling_interval(Checked') >= adaptive_polling_interval(Checked)]_vars

C9_Witness ==
    /\ ret.op = "increment_request_count"
    /\ counted = 1
    /\ device_count >= 1
    /\ adaptive_polling_interval(Tracker) >
           adaptive_polling_interval([Tracker EXCEPT !.request_count = request_count - 1])

(* C10: for device_count >= 1 and remaining() >= 1, interval() is an       *)
(* integer within [60, 300].                                               *)
C10_IntervalWithinRange ==
    (IntervalReturned /\ device_count >= 1 /\ remaining_requests(Tracker) >= 1) =>
        ret.value \in MIN_POLLING_INTERVAL..MAX_POLLING_INTERVAL

C10_Witness ==
    /\ IntervalReturned
    /\ device_count >= 1
    /\ remaining_requests(Tracker) >= 1
    /\ ret.value > MIN_POLLING_INTERVAL
    /\ ret.value < MAX_POLLING_INTERVAL
(***************************************************************************)
(* C11: with no devices (device_count = 0) get_adaptive_polling_interval   *)
(* returns DEFAULT_POLLING_INTERVAL = 120 whatever request_count is, below, *)
(* at or above SAFE_REQUEST_LIMIT.                                         *)
(***************************************************************************)
C11_NoDevicesGivesDefault ==
    (IntervalReturned /\ device_count = 0) =>
        /\ ret.value = DEFAULT_POLLING_INTERVAL
        /\ ret.value = 120

C11_Witness ==
    /\ IntervalReturned /\ device_count = 0
    /\ request_count > SAFE_REQUEST_LIMIT
    /\ ret.value = DEFAULT_POLLING_INTERVAL

(***************************************************************************)
(* C12: get_adaptive_polling_interval is read-only.  As claimed: in every  *)
(* state and at every date a call leaves request_count, device_count,      *)
(* last_reset_date and the storage record exactly as they were.            *)
(***************************************************************************)
C12_IntervalCallChangesNothing ==
    [][IntervalCalled =>
          UNCHANGED <<request_count, device_count, last_reset_date, storage>>]_vars

(***************************************************************************)
(* C12, amended: a call made while last_reset_date is the current date     *)
(* leaves request_count, device_count, last_reset_date and the storage     *)
(* record exactly as they were, the record included when it is out of date *)
(* with the instance; a call on a later date performs the daily reset.     *)
(***************************************************************************)
C12_IntervalCallChangesNothingOnCurrentDate ==
    [][IntervalCalled =>
          /\ last_reset_date = strftime(today) =>
                UNCHANGED <<request_count, device_count, last_reset_date, storage>>
          /\ last_reset_date # strftime(today) =>
                /\ last_reset_date' = strftime(today)
                /\ request_count' = 0]_vars

C12_Witness ==
    /\ IntervalReturned /\ last_reset_date = strftime(today) /\ resets_today = 0
    /\ counted >= 1 /\ writable
    /\ storage # <<[last_reset_date |-> last_reset_date, request_count |-> request_count,
                    device_count |-> device_count]>>

(***************************************************************************)
(* C13: queries are idempotent.  As claimed: whatever happens between two  *)
(* get_rate_limit_status calls other than increment_request_count and      *)
(* update_device_count, the second returns the snapshot the first          *)
(* returned; the same for get_adaptive_polling_interval.                   *)
(***************************************************************************)
C13_RepeatedQueriesAgree ==
    [][~(RequestRecorded \/ DeviceCountRecorded) =>
          /\ rate_limit_status(Checked') = rate_limit_status(Checked)
          /\ adaptive_polling_interval(Checked') = adaptive_polling_interval(Checked)]_vars

(***************************************************************************)
(* C13, amended: while the calendar date does not change, whatever happens *)
(* other than increment_request_count and update_device_count leaves the   *)
(* snapshot and the interval a call returns the same; a call that directly *)
(* follows a call of the same query returns the same value and changes no  *)
(* field and no storage record.                                            *)
(***************************************************************************)
C13_RepeatedQueriesAgreeOnOneDate ==
    [][/\ (today' = today /\ ~(RequestRecorded \/ DeviceCountRecorded)) =>
             /\ rate_limit_status(Checked') = rate_limit_status(Checked)
             /\ adaptive_polling_interval(Checked') = adaptive_polling_interval(Checked)
       /\ (ret.op = "get_rate_limit_status" /\ StatusCalled) =>
             /\ ret' = ret
             /\ UNCHANGED <<request_count, device_count, last_reset_date, storage>>
       /\ (ret.op = "get_adaptive_polling_interval" /\ IntervalCalled) =>
             /\ ret' = ret
             /\ UNCHANGED <<request_count, device_count, last_reset_date, storage>>]_vars

C13_Witness ==
    /\ ret.op = "get_rate_limit_status" /\ ret.value = rate_limit_status(Checked)
    /\ today = MaxDay /\ resets_today = 1 /\ counted >= 1 /\ device_count >= 1

(* the instance is as __init__ left it: no operation ran, the date is the same *)
JustConstructed == ret = NoReturn /\ today = origin.constructed /\ counted = 0

(***************************************************************************)
(* C14: loading storage that is absent, unreadable or structurally invalid *)
(* (not an object with a date string and two non-negative integers) leaves *)
(* the fresh state: last_reset_date today, request_count 0 and             *)
(* device_count 0.                                                         *)
(***************************************************************************)
C14_InvalidStorageLoadsFresh ==
    (JustConstructed /\ origin.reset = 0) =>
        /\ last_reset_date = strftime(today)
        /\ request_count = 0
        /\ device_count = 0

(***************************************************************************)
(* C15: increment_request_count, after the reset a new date needs, raises  *)
(* request_count in memory by exactly 1 and leaves device_count as the     *)
(* check left it, whether or not the storage write succeeds; a failed      *)
(* write leaves the storage record as it was and nothing is raised.        *)
(***************************************************************************)
C15_RecordRequestCountsOne ==
    [][RequestRecorded =>
          /\ request_count' = (IF last_reset_date = strftime(today) THEN request_count ELSE 0) + 1
          /\ device_count' = Checked.device_count
          /\ last_reset_date' = strftime(today)
          /\ ret' = [op |-> "increment_request_count"]
          /\ ~writable => storage' = storage]_vars

C15_Witness ==
    /\ ret.op = "increment_request_count" /\ ~writable /\ counted = MaxRecorded
    /\ request_count = base + counted /\ device_count >= 1
    /\ storage # <<>> /\ storage[1].request_count = base

(* the storage record holds the fields of the instance *)
Written ==
    storage = <<[last_reset_date |-> last_reset_date, request_count |-> request_count,
                 device_count |-> device_count]>>

(***************************************************************************)
(* C16: round trip.  A tracker constructed on the storage record another   *)
(* has written has the last_reset_date, request_count and device_count     *)
(* that were written; every operation that writes leaves a record from     *)
(* which exactly its fields are loaded.                                    *)
(***************************************************************************)
C16_WriteThenLoadRoundTrips ==
    [][/\ (Restarted /\ Written) =>
             /\ last_reset_date' = last_reset_date
             /\ request_count' = request_count
             /\ device_count' = device_count
             /\ storage' = storage
       /\ (RequestRecorded /\ writable) =>
             LET m == load_rate_limit_data(storage', today, writable)
             IN  /\ m.last_reset_date = last_reset_date'
                 /\ m.request_count = request_count'
                 /\ m.device_count = device_count']_vars

C16_Witness ==
    /\ ret.op = "__init__" /\ Written
    /\ today = MaxDay /\ last_reset_date = strftime(today)
    /\ request_count = MaxRecorded /\ device_count = MaxEnumerated

(***************************************************************************)
(* C17: get_remaining_requests returns max(0, SAFE_REQUEST_LIMIT -         *)
(* request_count), never a negative value, also with request_count above   *)
(* the limit; can_make_request returns true exactly when that value is     *)
(* positive, that is when request_count < SAFE_REQUEST_LIMIT.              *)
(***************************************************************************)
C17_RemainingAndGate ==
    /\ ret.op = "get_remaining_requests" =>
          /\ ret.value = IF request_count < SAFE_REQUEST_LIMIT
                         THEN SAFE_REQUEST_LIMIT - request_count ELSE 0
          /\ ret.value >= 0
    /\ ret.op = "can_make_request" =>
          /\ ret.value = (request_count < SAFE_REQUEST_LIMIT)
          /\ ret.value = ((IF request_count < SAFE_REQUEST_LIMIT
                           THEN SAFE_REQUEST_LIMIT - request_count ELSE 0) > 0)

C17_Witness ==
    /\ ret.op = "get_remaining_requests" /\ request_count > SAFE_REQUEST_LIMIT
    /\ ret.value = 0

(***************************************************************************)
(* C18: update_device_count(n), after the reset a new date needs, leaves   *)
(* device_count = n and request_count as the check left it; when n is the  *)
(* device_count the instance already holds, it changes no field and writes *)
(* no storage record, also when the record is out of date.                 *)
(***************************************************************************)
C18_RecordDeviceCountSetsCount ==
    [][\A n \in EnumeratedCounts :
          (ret'.op = "update_device_count" /\ UpdateDeviceCount(n)) =>
              /\ device_count' = n
              /\ request_count' = IF last_reset_date = strftime(today) THEN request_count ELSE 0
              /\ (last_reset_date = strftime(today) /\ n = device_count) =>
                    UNCHANGED <<request_count, device_count, last_reset_date, storage>>
              /\ (last_reset_date # strftime(today) /\ n = 0) =>
                    storage' = Checked.storage]_vars

C18_Witness ==
    /\ ret.op = "update_device_count" /\ last_reset_date = strftime(today)
    /\ device_count = MaxEnumerated /\ counted >= 1
    /\ writable /\ ~Written

(***************************************************************************)
(* C19: as claimed, in every reachable state, the state right after        *)
(* construction from existing storage included, last_reset_date is the     *)
(* date the instance was constructed or the date of its most recent reset. *)
(***************************************************************************)
C19_DateIsConstructionOrReset ==
    \/ last_reset_date = strftime(origin.constructed)
    \/ origin.reset # 0 /\ last_reset_date = strftime(origin.reset)

(***************************************************************************)
(* C19, amended: last_reset_date is the date of the most recent reset of   *)
(* the instance once it has reset; before that it is the date the loaded   *)
(* storage record held (None for a record without one), whatever that date *)
(* is, and the construction date only when no record was loaded.           *)
(***************************************************************************)
C19_DateIsResetLoadOrConstruction ==
    last_reset_date = IF origin.reset # 0 THEN strftime(origin.reset)
                      ELSE IF origin.loaded # NoDate THEN origin.loaded
                      ELSE strftime(origin.constructed)

C19_Witness ==
    /\ ret.op = "__init__" /\ origin.reset = 0 /\ origin.constructed = MaxDay
    /\ origin.loaded # NoDate /\ last_reset_date = origin.loaded
    /\ last_reset_date # strftime(origin.constructed)
    /\ request_count >= 1

(***************************************************************************)
(* C20: every snapshot get_rate_limit_status returns describes one single  *)
(* state of the tracker, wherever the calendar date advances relative to   *)
(* the call: its remaining_requests is max(0, SAFE_REQUEST_LIMIT - its     *)
(* request_count), its can_make_request is remaining_requests > 0, its     *)
(* adaptive_polling_interval is the interval for its request_count and     *)
(* device_count, and its request_count is the count of its                 *)
(* last_reset_date.                                                        *)
(***************************************************************************)
C20_SnapshotDescribesOneState ==
    ret.op = "get_rate_limit_status" =>
        LET v == ret.value
            q == [last_reset_date |-> v.last_reset_date, request_count |-> v.request_count,
                  device_count |-> v.device_count, storage |-> storage]
        IN  /\ v.remaining_requests = Max(0, SAFE_REQUEST_LIMIT - v.request_count)
            /\ v.can_make_request = (v.remaining_requests > 0)
            /\ v.adaptive_polling_interval = adaptive_polling_interval(q)
            /\ v.last_reset_date = last_reset_date =>
                  /\ v.request_count = request_count
                  /\ v.device_count = device_count

(* the values [] / None / False *)
EmptyResult(kind) ==
    CASE kind = "get_devices" -> <<>>
      [] kind = "get_device_state" -> "None"
      [] kind = "control_device" -> FALSE

C22_RefusalIsDistinct ==
    (ret.op \in Kinds /\ ret.raised \notin {"none", RateLimitReached}) =>
        ret.value # EmptyResult(ret.op)

(* the usage value of the last call: get_usage_percentage's return value,  *)
(* or the usage_percentage entry of get_rate_limit_status's snapshot, as a *)
(* fraction num / den over SAFE_REQUEST_LIMIT                              *)
UsageReturned == ret.op \in {"get_usage_percentage", "get_rate_limit_status"}
Usage == IF ret.op = "get_usage_percentage" THEN ret.value ELSE ret.value.usage_percentage

(***************************************************************************)
(* C23: as claimed, get_usage_percentage returns request_count /           *)
(* SAFE_REQUEST_LIMIT as a ratio, 0 at request_count = 0, exactly 1 at     *)
(* request_count = SAFE_REQUEST_LIMIT, and get_rate_limit_status reports   *)
(* the same ratio.                                                         *)
(***************************************************************************)
C23_UsageIsRatio ==
    UsageReturned =>
        /\ Usage.den = SAFE_REQUEST_LIMIT
        /\ Usage.num = request_count
        /\ request_count = SAFE_REQUEST_LIMIT => Usage.num = Usage.den

(***************************************************************************)
(* C23, amended: get_usage_percentage returns the percentage               *)
(* (request_count / SAFE_REQUEST_LIMIT) * 100: 0 at request_count = 0,     *)
(* 100 at request_count = SAFE_REQUEST_LIMIT, above 100 over the limit;    *)
(* get_rate_limit_status reports that same percentage.                     *)
(***************************************************************************)
C23_UsageIsPercentage ==
    UsageReturned =>
        /\ Usage.den = SAFE_REQUEST_LIMIT
        /\ Usage.num = 100 * request_count
        /\ request_count = 0 => Usage.num = 0
        /\ request_count = SAFE_REQUEST_LIMIT => Usage.num = 100 * Usage.den
        /\ request_count > SAFE_REQUEST_LIMIT => Usage.num > 100 * Usage.den

C23_Witness ==
    /\ ret.op = "get_usage_percentage" /\ request_count = SAFE_REQUEST_LIMIT
    /\ ret.value.num = 100 * ret.value.den

(***************************************************************************)
(* C24: for every interleaving of overlapping calls on one API client,     *)
(* each checking the gate before its network wait and recording the        *)
(* request after it, request_count never exceeds SAFE_REQUEST_LIMIT.       *)
(***************************************************************************)
C24_OverlappingCallsStayUnderLimit ==
    enable_rate_limiting => request_count <= SAFE_REQUEST_LIMIT

(***************************************************************************)
(* C25: every HTTP call the API client sends is counted: when the exchange *)
(* of a sent call ends, whatever its outcome (code 200, another code, an   *)
(* HTTP error status, a 429, a network error or a body that is not JSON),  *)
(* request_count is one above the count of the day.                        *)
(***************************************************************************)
C25_EverySentCallIsCounted ==
    [][\A c \in Slots, outcome \in Outcomes, n \in EnumeratedCounts :
          (/\ enable_rate_limiting /\ calls[c] # "idle"
           /\ ret'.op = calls[c]
           /\ Respond(c, outcome, n)) =>
              request_count' =
                  (IF last_reset_date = strftime(today) THEN request_count ELSE 0) + 1]_vars

(***************************************************************************)
(* C26: when get_devices has returned, device_count is the number of       *)
(* devices of the most recent successful enumeration (code 200): a call    *)
(* that was refused, that failed or that got another code has returned []  *)
(* and has left device_count as it was.                                    *)
(***************************************************************************)
C26_FailedEnumerationKeepsDeviceCount ==
    (enable_rate_limiting /\ ret.op = "get_devices") =>
        /\ device_count = enumerated
        /\ ret.raised # "none" => ret.value = <<>>

(***************************************************************************)
(* C27: quota exhaustion ends with the day.  When the date changes with    *)
(* the quota exhausted, the next can_make_request returns true, and the    *)
(* next call of get_devices, get_device_state or control_device made on    *)
(* the new date is not refused: it is sent and request_count restarts      *)
(* from 0.                                                                 *)
(***************************************************************************)
C27_NewDateLiftsRefusal ==
    [][/\ (enable_rate_limiting /\ Exhausted /\ today' # today) =>
             can_make_request(Checked')
       /\ \A c \in Slots, kind \in Kinds :
             (/\ enable_rate_limiting
              /\ request_count >= SAFE_REQUEST_LIMIT
              /\ last_reset_date # strftime(today)
              /\ today' = today /\ writable' = writable
              /\ ret'.op \in {kind, "_make_request"}
              /\ Enter(c, kind, TRUE)) =>
                 /\ ret' = [op |-> "_make_request", raised |-> "none", value |-> "awaiting"]
                 /\ sent' = sent + 1
                 /\ calls'[c] = kind
                 /\ request_count' = 0
                 /\ last_reset_date' = strftime(today)]_vars

C27_Witness ==
    /\ enable_rate_limiting /\ ret.op = "_make_request" /\ today = MaxDay
    /\ resets_today = 1 /\ request_count = 0 /\ ~writable
    /\ storage # <<>> /\ storage[1].request_count >= SAFE_REQUEST_LIMIT
    /\ storage[1].last_reset_date = strftime(today - 1)

(***************************************************************************)
(* C28: with one tracker and writes that succeed, after construction and   *)
(* after every tracker operation (rollover, increment_request_count,       *)
(* update_device_count, the queries) the stored record holds the           *)
(* last_reset_date, request_count and device_count that are in memory.     *)
(***************************************************************************)
C28_StoredRecordEqualsMemory ==
    /\ IsJsonObject(storage)
    /\ Get(storage[1], "last_reset_date", None) = last_reset_date
    /\ Get(storage[1], "request_count", 0) = request_count
    /\ Get(storage[1], "device_count", 0) = device_count

C28_Witness ==
    /\ ret.op = "update_device_count"
    /\ today = MaxDay
    /\ resets_today = 1
    /\ device_count = MaxEnumerated
    /\ storage = <<[last_reset_date |-> strftime(MaxDay), request_count |-> 0,
                    device_count |-> MaxEnumerated]>>

(***************************************************************************)
(* C29: while two API clients are alive on the same storage file and both  *)
(* trackers and the file are on today's date, no tracker operation lowers  *)
(* the stored request_count, and after it the stored request_count is the  *)
(* count the day started with plus the requests that the two clients have  *)
(* recorded.                                                               *)
(***************************************************************************)
C29_StoredCountIsTotalOfBoth ==
    [][(/\ peer # NoPeer
        /\ peer' # NoPeer
        /\ last_reset_date = strftime(today)
        /\ peer.last_reset_date = strftime(today)
        /\ storage[1].last_reset_date = strftime(today)) =>
            /\ storage'[1].request_count >= storage[1].request_count
            /\ storage'[1].request_count = base + counted' + peer'.counted]_vars

(***************************************************************************)
(* C30: for device_count >= 1 and remaining() >= 1, when                   *)
(* get_adaptive_polling_interval returns less than MAX_POLLING_INTERVAL,   *)
(* polling every device once per returned interval for 86400 seconds takes *)
(* no more requests than remain:                                           *)
(* device_count * (86400 div interval) <= remaining.                       *)
(***************************************************************************)
C30_IntervalKeepsWithinBudget ==
    (/\ IntervalReturned
     /\ device_count >= 1
     /\ remaining_requests(Tracker) >= 1
     /\ ret.value < MAX_POLLING_INTERVAL) =>
        device_count * (SECONDS_PER_DAY \div ret.value) <= remaining_requests(Tracker)

====
